---- MODULE Spec2Model ----
(***************************************************************************)
(* A model of txlr: the redirectors (statute, statute_toc, house_bill),    *)
(* the go route that runs them, and the legislative calendar of utils.py.  *)
(*                                                                         *)
(* A Python str is a sequence of one-character tokens; a token such as     *)
(* "U+0663" stands for the single character with that code point.  String  *)
(* literals of the source that are only ever copied (messages, the fixed   *)
(* parts of URL templates, titles) are single tokens.                      *)
(***************************************************************************)
EXTENDS Integers, Sequences, FiniteSets, TLC

VARIABLES q, op, result, response, date, prefiling, lege, prevLege, startLege

vars == <<q, op, result, response, date, prefiling, lege, prevLege, startLege>>

(***************************************************************************)
(* Bounds of the model.                                                    *)
(***************************************************************************)
MaxTail == 3
SpanYears == 3

(***************************************************************************)
(* Characters.                                                             *)
(***************************************************************************)
LowerChars ==
    <<"a","b","c","d","e","f","g","h","i","j","k","l","m",
      "n","o","p","q","r","s","t","u","v","w","x","y","z">>

UpperChars ==
    <<"A","B","C","D","E","F","G","H","I","J","K","L","M",
      "N","O","P","Q","R","S","T","U","V","W","X","Y","Z">>

Range(s) == {s[i] : i \in 1..Len(s)}

AsciiLower == Range(LowerChars)
AsciiUpper == Range(UpperChars)
AsciiDigits == {"0","1","2","3","4","5","6","7","8","9"}
AsciiPunct == {" ", ".", "_", "/", "(", ")", "-"}
AsciiChars == AsciiLower \cup AsciiUpper \cup AsciiDigits \cup AsciiPunct

\* U+0663 ARABIC-INDIC DIGIT THREE: str.isdigit() is true of it, str.isascii() is not.
NonAsciiDigits == {"U+0663"}

IndexOf(s, c) == CHOOSE i \in 1..Len(s) : s[i] = c

\* str.lower() and str.upper(), character by character
LowerChar(c) == IF c \in AsciiUpper THEN LowerChars[IndexOf(UpperChars, c)] ELSE c
UpperChar(c) == IF c \in AsciiLower THEN UpperChars[IndexOf(LowerChars, c)] ELSE c

lower(s) == [i \in 1..Len(s) |-> LowerChar(s[i])]
upper(s) == [i \in 1..Len(s) |-> UpperChar(s[i])]

\* str.replace(old, new) for one-character old and new
replace(s, old, new) == [i \in 1..Len(s) |-> IF s[i] = old THEN new ELSE s[i]]

\* str.replace(old, '') for a one-character old
remove(s, old) == SelectSeq(s, LAMBDA c : c # old)

isascii(s) == \A i \in 1..Len(s) : s[i] \in AsciiChars
isdigit(s) == Len(s) > 0 /\ \A i \in 1..Len(s) : s[i] \in AsciiDigits \cup NonAsciiDigits
isalpha(c) == c \in AsciiLower \cup AsciiUpper

Contains(s, c) == \E i \in 1..Len(s) : s[i] = c
AllIn(s, S) == \A i \in 1..Len(s) : s[i] \in S

\* s[n:] and s[:-1]
From(s, n) == SubSeq(s, n + 1, Len(s))
ButLast(s) == SubSeq(s, 1, Len(s) - 1)

\* the position of the first '.', for str.split('.', 1) and the patterns
FirstDot(s) == CHOOSE i \in 1..Len(s) : s[i] = "." /\ \A j \in 1..(i-1) : s[j] # "."
Predot(s) == SubSeq(s, 1, FirstDot(s) - 1)
Postdot(s) == SubSeq(s, FirstDot(s) + 1, Len(s))

(***************************************************************************)
(* utils.canonicalize and utils.VALID_CODES                                *)
(***************************************************************************)
canonicalize(s) == remove(lower(s), " ")

VALID_CODES ==
    { <<"C","N">>, <<"A","G">>, <<"A","L">>, <<"W","L">>, <<"B","C">>, <<"B","O">>,
      <<"C","P">>, <<"C","R">>, <<"E","D">>, <<"E","L">>, <<"E","S">>, <<"F","A">>,
      <<"F","I">>, <<"G","V">>, <<"H","S">>, <<"H","R">>, <<"I","N">>, <<"I","1">>,
      <<"L","A">>, <<"L","G">>, <<"N","R">>, <<"O","C">>, <<"P","W">>, <<"P","E">>,
      <<"P","R">>, <<"S","D">>, <<"T","X">>, <<"T","N">>, <<"U","T">>, <<"W","A">>,
      <<"C","V">> }

(***************************************************************************)
(* What a redirector call produces: the tuple (True, url), (False, None)   *)
(* or (False, msg), or an exception that leaves the function.              *)
(***************************************************************************)
None == <<"None">>

Tuple(ok, val) == [exc |-> "", ok |-> ok, val |-> val]
Raise(e) == [exc |-> e, ok |-> FALSE, val |-> None]

MSG_INVALID_CODE == <<"The code of law you gave is invalid">>
MSG_CV_FORMAT == <<"The Civil Statutes chapter number you gave is invalidly formatted">>
MSG_SECTION_FORMAT ==
    <<"The code section number you gave is invalidly formatted; it must start with a number and contain alphanumeric characters, dashes, and at most one decimal point">>
MSG_TOC_INVALID == <<"The code of law you provided is not valid">>

(***************************************************************************)
(* redirectors.statute                                                     *)
(***************************************************************************)
PatCodeChars == AsciiLower \cup AsciiDigits
PatSectionChars ==
    AsciiLower \cup AsciiUpper \cup AsciiDigits \cup {".", "_", "/", "(", ")", "-"}

\* re.fullmatch('([a-z0-9]{2})([A-Za-z0-9._/()-]+)', s)
MatchPAT(s) ==
    /\ Len(s) >= 3
    /\ AllIn(SubSeq(s, 1, 2), PatCodeChars)
    /\ AllIn(From(s, 2), PatSectionChars)

\* re.fullmatch('[A-Z0-9]+[.][A-Z0-9_/-]+', s)
MatchCivilChapter(s) ==
    /\ Contains(s, ".")
    /\ Len(Predot(s)) >= 1
    /\ AllIn(Predot(s), AsciiUpper \cup AsciiDigits)
    /\ Len(Postdot(s)) >= 1
    /\ AllIn(Postdot(s), AsciiUpper \cup AsciiDigits \cup {"_", "/", "-"})

\* re.fullmatch('[0-9][A-Z0-9-]*([.][A-Z0-9-]*)?', s)
MatchSection(s) ==
    /\ Len(s) >= 1
    /\ s[1] \in AsciiDigits
    /\ IF Contains(s, ".")
       THEN /\ AllIn(From(Predot(s), 1), AsciiUpper \cup AsciiDigits \cup {"-"})
            /\ AllIn(Postdot(s), AsciiUpper \cup AsciiDigits \cup {"-"})
       ELSE AllIn(From(s, 1), AsciiUpper \cup AsciiDigits \cup {"-"})

\* 'https://statutes.capitol.texas.gov/docs/{code}/htm/{code}.{chapter}.htm#{anchor}'
ChapterUrl(code, chapter, anchor) ==
    <<"https://statutes.capitol.texas.gov/docs/">> \o code \o <<"/htm/">> \o code
        \o <<".">> \o chapter \o <<".htm#">> \o anchor

\* 'https://statutes.capitol.texas.gov/GetStatute.aspx?DocumentType=Word&Value={code}.{chapter}'
ArticleUrl(code, chapter) ==
    <<"https://statutes.capitol.texas.gov/GetStatute.aspx?DocumentType=Word&Value=">>
        \o code \o <<".">> \o chapter

\* lines 60-74: the civil statutes branch; section is m.group(2)
StatuteCivil(code, section) ==
    IF Contains(section, ".")
    THEN IF MatchCivilChapter(upper(section))
         THEN Tuple(TRUE, ChapterUrl(code, replace(upper(section), "/", "_"), <<>>))
         ELSE Tuple(FALSE, MSG_CV_FORMAT)
    ELSE Tuple(TRUE, ArticleUrl(code, section))

\* StatuteSplit with the anchor always the part after the dot
StatuteSplitAnchorPostdot(code, section) ==
    IF Contains(ButLast(section), ".")
    THEN IF Postdot(section) = <<>>
         THEN Raise("IndexError")
         ELSE IF isalpha(Postdot(section)[1])
              THEN Tuple(TRUE, ChapterUrl(code, Predot(section), Postdot(section)))
              ELSE Tuple(TRUE, ChapterUrl(code, Predot(section), Postdot(section)))
    ELSE IF section = <<>>
         THEN Raise("IndexError")
         ELSE IF section[Len(section)] = "."
              THEN Tuple(TRUE, ChapterUrl(code, ButLast(section), <<>>))
              ELSE Tuple(TRUE, ChapterUrl(code, section, <<>>))

\* StatuteSplit testing '.' in section instead of '.' in section[:-1]
StatuteSplitAnyDot(code, section) ==
    IF Contains(section, ".")
    THEN IF Postdot(section) = <<>>
         THEN Raise("IndexError")
         ELSE IF isalpha(Postdot(section)[1])
              THEN Tuple(TRUE, ChapterUrl(code, Predot(section), Postdot(section)))
              ELSE Tuple(TRUE, ChapterUrl(code, Predot(section), section))
    ELSE IF section = <<>>
         THEN Raise("IndexError")
         ELSE IF section[Len(section)] = "."
              THEN Tuple(TRUE, ChapterUrl(code, ButLast(section), <<>>))
              ELSE Tuple(TRUE, ChapterUrl(code, section, <<>>))

\* lines 85-98: chapter and anchor of a section that passed the shape check
StatuteSplit(code, section) ==
    IF Contains(ButLast(section), ".")
    THEN IF Postdot(section) = <<>>
         THEN Raise("IndexError")
         ELSE IF isalpha(Postdot(section)[1])
              THEN Tuple(TRUE, ChapterUrl(code, Predot(section), Postdot(section)))
              ELSE Tuple(TRUE, ChapterUrl(code, Predot(section), section))
    ELSE IF section = <<>>
         THEN Raise("IndexError")
         ELSE IF section[Len(section)] = "."
              THEN Tuple(TRUE, ChapterUrl(code, ButLast(section), <<>>))
              ELSE Tuple(TRUE, ChapterUrl(code, section, <<>>))

\* lines 76-98: every code but CV
StatuteCode(code, section) ==
    IF ~MatchSection(upper(section))
    THEN Tuple(FALSE, MSG_SECTION_FORMAT)
    ELSE StatuteSplit(code, upper(section))

\* StatuteMatched with the rejected code quoted in the message
StatuteMatchedEchoesCode(code, section) ==
    IF code \notin VALID_CODES
    THEN Tuple(FALSE, MSG_INVALID_CODE \o code)
    ELSE IF code = <<"C","V">>
         THEN StatuteCivil(code, section)
         ELSE StatuteCode(code, section)

\* StatuteMatched without the code table check
StatuteMatchedNoCodeCheck(code, section) ==
    IF code = <<"C","V">>
    THEN StatuteCivil(code, section)
    ELSE StatuteCode(code, section)

\* lines 48-100: the query matched PAT
StatuteMatched(code, section) ==
    IF code \notin VALID_CODES
    THEN Tuple(FALSE, MSG_INVALID_CODE)
    ELSE IF code = <<"C","V">>
         THEN StatuteCivil(code, section)
         ELSE StatuteCode(code, section)

statute(s) ==
    IF MatchPAT(canonicalize(s))
    THEN StatuteMatched(upper(SubSeq(canonicalize(s), 1, 2)), From(canonicalize(s), 2))
    ELSE Tuple(FALSE, None)

(***************************************************************************)
(* redirectors.statute_toc                                                 *)
(***************************************************************************)
TocUrl(code) == <<"https://statutes.capitol.texas.gov/?link=">> \o code

statute_toc(s) ==
    IF upper(canonicalize(s)) \in VALID_CODES
    THEN Tuple(TRUE, TocUrl(upper(canonicalize(s))))
    ELSE IF Len(upper(canonicalize(s))) = 2
         THEN Tuple(FALSE, MSG_TOC_INVALID)
         ELSE Tuple(FALSE, None)

(***************************************************************************)
(* redirectors.house_bill                                                  *)
(***************************************************************************)
BillUrl(num) ==
    <<"https://capitol.texas.gov/BillLookup/History.aspx?LegSess=87R&Bill=HB">> \o num

\* house_bill without the isascii test
house_billAnyDigits(s) ==
    IF /\ Len(s) >= 3
       /\ s[1] \in {"h", "H"}
       /\ s[2] \in {"b", "B"}
       /\ isdigit(From(s, 2))
    THEN Tuple(TRUE, BillUrl(From(s, 2)))
    ELSE Tuple(FALSE, None)

house_bill(s) ==
    IF /\ isascii(s)
       /\ Len(s) >= 3
       /\ s[1] \in {"h", "H"}
       /\ s[2] \in {"b", "B"}
       /\ isdigit(From(s, 2))
    THEN Tuple(TRUE, BillUrl(From(s, 2)))
    ELSE Tuple(FALSE, None)

(***************************************************************************)
(* redirectors.REDIRECTORS and views.go                                    *)
(***************************************************************************)
REDIRECTORS == <<"statute", "house_bill">>

Call(redir, s) ==
    CASE redir = "statute" -> statute(s)
      [] redir = "statute_toc" -> statute_toc(s)
      [] redir = "house_bill" -> house_bill(s)

title(redir) ==
    CASE redir = "statute" -> "Constitution and statutes"
      [] redir = "statute_toc" -> "Constitution and statutes, code table of contents"
      [] redir = "house_bill" -> "House bill, by number"

pattern(redir) ==
    CASE redir = "statute" ->
            "<code><chapter>[.[<section|subchapter>]], cn<article>.<section>, cv<title>.<chapter>, cv<article>"
      [] redir = "statute_toc" -> "<code>"
      [] redir = "house_bill" -> "hb<number>"

\* results = [redir(q) for redir in REDIRECTORS]
Results(s) == [i \in 1..Len(REDIRECTORS) |-> Call(REDIRECTORS[i], s)]

Redirect303(url) == [status |-> 303, location |-> url, messages |-> <<>>]
NotFound404(messages) == [status |-> 404, location |-> None, messages |-> messages]
Error500 == [status |-> 500, location |-> None, messages |-> <<>>]

Entry(redir, res) ==
    [msg |-> res.val, name |-> redir, title |-> title(redir), pattern |-> pattern(redir)]

\* GoLoop giving up at the first redirector that returns a message
RECURSIVE GoLoopStopsAtMessage(_, _, _)
GoLoopStopsAtMessage(results, i, messages) ==
    IF i > Len(results)
    THEN NotFound404(messages)
    ELSE IF results[i].ok = TRUE
         THEN Redirect303(results[i].val)
         ELSE IF results[i].val # None
              THEN NotFound404(Append(messages, Entry(REDIRECTORS[i], results[i])))
              ELSE GoLoopStopsAtMessage(results, i + 1,
                                        Append(messages, Entry(REDIRECTORS[i], results[i])))

\* the for loop of go, from position i with the messages collected so far
RECURSIVE GoLoop(_, _, _)
GoLoop(results, i, messages) ==
    IF i > Len(results)
    THEN NotFound404(messages)
    ELSE IF results[i].ok = TRUE
         THEN Redirect303(results[i].val)
         ELSE GoLoop(results, i + 1, Append(messages, Entry(REDIRECTORS[i], results[i])))

go(s) ==
    IF \E i \in 1..Len(REDIRECTORS) : Results(s)[i].exc # ""
    THEN Error500
    ELSE GoLoop(Results(s), 1, <<>>)

(***************************************************************************)
(* utils: the legislative calendar.  A date is <<year, month, day>> in     *)
(* US/Central; convening and prefiling dates are midnights, so comparing   *)
(* instants is comparing days.                                             *)
(***************************************************************************)
IsLeap(y) == (y % 4 = 0) /\ ((y % 100 # 0) \/ (y % 400 = 0))

DaysInMonth(y, m) ==
    IF m = 2 THEN (IF IsLeap(y) THEN 29 ELSE 28)
    ELSE IF m \in {4, 6, 9, 11} THEN 30 ELSE 31

RECURSIVE DaysBeforeMonth(_, _)
DaysBeforeMonth(y, m) == IF m = 1 THEN 0 ELSE DaysBeforeMonth(y, m - 1) + DaysInMonth(y, m - 1)

DaysBeforeYear(y) == 365 * (y - 1) + ((y - 1) \div 4) - ((y - 1) \div 100) + ((y - 1) \div 400)

\* the proleptic Gregorian ordinal of a date; day 1 is Monday 0001-01-01
Ordinal(d) == DaysBeforeYear(d[1]) + DaysBeforeMonth(d[1], d[2]) + d[3]

\* Monday is 0
Weekday(d) == (Ordinal(d) + 6) % 7

NextDay(d) ==
    IF d[3] < DaysInMonth(d[1], d[2]) THEN <<d[1], d[2], d[3] + 1>>
    ELSE IF d[2] < 12 THEN <<d[1], d[2] + 1, 1>>
    ELSE <<d[1] + 1, 1, 1>>

RECURSIVE ShiftDays(_, _)
ShiftDays(d, n) == IF n = 0 THEN d ELSE ShiftDays(NextDay(d), n - 1)

\* Arrow.shift(weekday=w): the first day on or after d that falls on weekday w
ShiftWeekday(d, w) == ShiftDays(d, (w - Weekday(d) + 7) % 7)

Before(d1, d2) == Ordinal(d1) < Ordinal(d2)

lege_year(n) == 1847 + 2 * n
year_lege(year) == (year - 1847) \div 2
prefiling_date(n) == ShiftWeekday(<<lege_year(n) - 1, 11, 8>>, 0)
convening_date(n) == ShiftWeekday(<<lege_year(n), 1, 8>>, 1)
adjourning_date(n) == ShiftDays(convening_date(n), 139)

\* current_lege counting the convening day itself as not yet convened
current_legeConveneExclusive(d, pre) ==
    IF d[1] % 2 # 0
    THEN IF pre
         THEN year_lege(d[1])
         ELSE IF ~Before(convening_date(year_lege(d[1])), d)
              THEN year_lege(d[1]) - 1
              ELSE year_lege(d[1])
    ELSE IF ~pre
         THEN year_lege(d[1])
         ELSE IF ~Before(d, prefiling_date(year_lege(d[1]) + 1))
              THEN year_lege(d[1]) + 1
              ELSE year_lege(d[1])

\* current_lege looking at the prefiling flag in even years only
current_legeOddIgnoresPrefiling(d, pre) ==
    IF d[1] % 2 # 0
    THEN IF Before(d, convening_date(year_lege(d[1])))
         THEN year_lege(d[1]) - 1
         ELSE year_lege(d[1])
    ELSE IF ~pre
         THEN year_lege(d[1])
         ELSE IF ~Before(d, prefiling_date(year_lege(d[1]) + 1))
              THEN year_lege(d[1]) + 1
              ELSE year_lege(d[1])

current_lege(d, pre) ==
    IF d[1] % 2 # 0
    THEN IF pre
         THEN year_lege(d[1])
         ELSE IF Before(d, convening_date(year_lege(d[1])))
              THEN year_lege(d[1]) - 1
              ELSE year_lege(d[1])
    ELSE IF ~pre
         THEN year_lege(d[1])
         ELSE IF ~Before(d, prefiling_date(year_lege(d[1]) + 1))
              THEN year_lege(d[1]) + 1
              ELSE year_lege(d[1])

(***************************************************************************)
(* The queries the model resolves: up to two characters that can open a    *)
(* query (the place of the code) and up to MaxTail characters after them.  *)
(***************************************************************************)
HeadChars == {"h", "b", "c", "v", "B", " "}
TailChars == {"0", "1", ".", "b", "-", "/", "U+0663"}

RECURSIVE Strings(_, _)
Strings(S, n) ==
    IF n = 0 THEN {<<>>}
    ELSE Strings(S, n - 1) \cup {Append(s, c) : s \in Strings(S, n - 1), c \in S}

Queries == {h \o t : h \in Strings(HeadChars, 2), t \in Strings(TailChars, MaxTail)}

NoResult == Raise("not called")
NoResponse == [status |-> 0, location |-> None, messages |-> <<>>]
NoLege == 0 - 1
Epoch == <<1871, 1, 1>>

(***************************************************************************)
(* Spec: one query, handed to one redirector or to the go route.           *)
(***************************************************************************)
Init ==
    /\ q \in Queries
    /\ op = "none"
    /\ result = NoResult
    /\ response = NoResponse
    /\ date = Epoch
    /\ prefiling = FALSE
    /\ lege = NoLege
    /\ prevLege = NoLege
    /\ startLege = NoLege

Statute ==
    /\ op = "none"
    /\ op' = "statute"
    /\ result' = statute(q)
    /\ UNCHANGED <<q, response, date, prefiling, lege, prevLege, startLege>>

StatuteToc ==
    /\ op = "none"
    /\ op' = "statute_toc"
    /\ result' = statute_toc(q)
    /\ UNCHANGED <<q, response, date, prefiling, lege, prevLege, startLege>>

HouseBill ==
    /\ op = "none"
    /\ op' = "house_bill"
    /\ result' = house_bill(q)
    /\ UNCHANGED <<q, response, date, prefiling, lege, prevLege, startLege>>

Go ==
    /\ op = "none"
    /\ op' = "go"
    /\ response' = go(q)
    /\ UNCHANGED <<q, result, date, prefiling, lege, prevLege, startLege>>

Next == Statute \/ StatuteToc \/ HouseBill \/ Go

Spec == Init /\ [][Next]_vars

(***************************************************************************)
(* CalSpec: the calendar is asked for the legislature of a day, then of    *)
(* the next day, and so on for SpanYears years from the start of a year.   *)
(***************************************************************************)
StartYears == {1871, 1899, 1999, 2020}

CalInit ==
    /\ q = <<>>
    /\ op = "none"
    /\ result = NoResult
    /\ response = NoResponse
    /\ \E y \in StartYears : date = <<y, 1, 1>>
    /\ prefiling \in BOOLEAN
    /\ lege = NoLege
    /\ prevLege = NoLege
    /\ startLege = NoLege

CurrentLege ==
    /\ op = "none"
    /\ op' = "current_lege"
    /\ lege' = current_lege(date, prefiling)
    /\ startLege' = IF startLege = NoLege THEN current_lege(date, prefiling) ELSE startLege
    /\ UNCHANGED <<q, result, response, date, prefiling, prevLege>>

Tomorrow ==
    /\ op = "current_lege"
    /\ \E y \in StartYears : y <= date[1] /\ NextDay(date)[1] < y + SpanYears
    /\ op' = "none"
    /\ date' = NextDay(date)
    /\ prevLege' = lege
    /\ UNCHANGED <<q, result, response, prefiling, lege, startLege>>

CalNext == CurrentLege \/ Tomorrow

CalSpec == CalInit /\ [][CalNext]_vars

(***************************************************************************)
(* Properties of the go route (Spec).                                      *)
(***************************************************************************)
Succeeds(i) == Results(q)[i].exc = "" /\ Results(q)[i].ok = TRUE
Rejects(i) == Results(q)[i].exc = "" /\ Results(q)[i].ok = FALSE /\ Results(q)[i].val # None

\* C1: when at least one redirector of REDIRECTORS returns (True, url), go answers
\* with the redirect to the url of the first such redirector in the order of
\* REDIRECTORS, whatever the redirectors before it rejected and the ones after it
\* returned.
C1_FirstSuccessWins ==
    op = "go" =>
        \A i \in 1..Len(REDIRECTORS) :
            (Succeeds(i) /\ \A j \in 1..(i-1) : ~Succeeds(j))
                => response = [status |-> 303, location |-> Results(q)[i].val, messages |-> <<>>]

\* statute rejects the query with a message and house_bill, after it, redirects
C1_Witness ==
    /\ op = "go"
    /\ Rejects(1)
    /\ Succeeds(2)
    /\ response.status = 303

\* the messages of the redirectors from position i on that rejected the query
RECURSIVE RejectedFrom(_)
RejectedFrom(i) ==
    IF i > Len(REDIRECTORS) THEN <<>>
    ELSE IF Rejects(i) THEN <<Results(q)[i].val>> \o RejectedFrom(i + 1)
    ELSE RejectedFrom(i + 1)

\* C2: when no redirector returns (True, url), the list go answers with has exactly
\* one entry for each redirector that returned a message, in the order of
\* REDIRECTORS, and no entry for a redirector that returned (False, None); it is
\* empty when every redirector returned (False, None).
C2_FailedListsOnlyRejections ==
    (op = "go" /\ \A i \in 1..Len(REDIRECTORS) : ~Succeeds(i)) =>
        /\ response.status = 404
        /\ Len(response.messages) = Len(RejectedFrom(1))
        /\ \A k \in 1..Len(response.messages) : response.messages[k].msg = RejectedFrom(1)[k]

\* C4: statute_toc is one of the redirectors go runs: a query that canonicalizes
\* and uppercases to a member of VALID_CODES is redirected to the table of
\* contents of that code, and one that canonicalizes to two characters that are
\* no code is answered with a list holding statute_toc's message.
C4_TocInEngine ==
    op = "go" =>
        /\ upper(canonicalize(q)) \in VALID_CODES
              => response = Redirect303(TocUrl(upper(canonicalize(q))))
        /\ (Len(canonicalize(q)) = 2 /\ upper(canonicalize(q)) \notin VALID_CODES)
              => /\ response.status = 404
                 /\ \E k \in 1..Len(response.messages) :
                        response.messages[k].msg = MSG_TOC_INVALID

(***************************************************************************)
(* Properties of the redirectors (Spec).                                   *)
(***************************************************************************)
CodeOf(s) == upper(SubSeq(canonicalize(s), 1, 2))
SectionOf(s) == upper(From(canonicalize(s), 2))

\* the query has a valid code other than CV and a section that passes the shape
\* check and has a '.' before its last character
HasInteriorDot ==
    /\ MatchPAT(canonicalize(q))
    /\ CodeOf(q) \in VALID_CODES \ {<<"C","V">>}
    /\ MatchSection(SectionOf(q))
    /\ Contains(ButLast(SectionOf(q)), ".")

\* C3 as claimed: for such a query the URL has the part before the dot as its
\* chapter, and as its anchor the part after the dot when that starts with a
\* letter and nothing otherwise.
C3_AnchorEmptyUnlessLetter ==
    (op = "statute" /\ HasInteriorDot) =>
        result = Tuple(TRUE, ChapterUrl(CodeOf(q), Predot(SectionOf(q)),
                         IF isalpha(Postdot(SectionOf(q))[1])
                         THEN Postdot(SectionOf(q)) ELSE <<>>))

\* C3 amended: for such a query the URL has the part before the dot as its
\* chapter, and as its anchor the part after the dot when that starts with a
\* letter and the whole uppercased section (dot included) otherwise.
C3_AnchorIsSectionUnlessLetter ==
    (op = "statute" /\ HasInteriorDot) =>
        result = Tuple(TRUE, ChapterUrl(CodeOf(q), Predot(SectionOf(q)),
                         IF isalpha(Postdot(SectionOf(q))[1])
                         THEN Postdot(SectionOf(q)) ELSE SectionOf(q)))

\* a section whose part after the dot starts with a digit went through statute
C3_Witness ==
    /\ op = "statute"
    /\ HasInteriorDot
    /\ Postdot(SectionOf(q))[1] \in AsciiDigits
    /\ result.ok = TRUE

\* the shape of a bill number: h or H, b or B, then one or more of 0..9
BillShape(s) ==
    /\ Len(s) >= 3
    /\ s[1] \in {"h", "H"}
    /\ s[2] \in {"b", "B"}
    /\ \A i \in 3..Len(s) : s[i] \in {"0","1","2","3","4","5","6","7","8","9"}

\* C5: house_bill returns (True, url) exactly for the ASCII queries of the bill
\* shape, url being the bill history address followed by the digits as written;
\* for every other query it returns (False, None), never a message.
C5_HouseBill ==
    op = "house_bill" =>
        IF BillShape(q)
        THEN result = [exc |-> "", ok |-> TRUE,
                       val |-> <<"https://capitol.texas.gov/BillLookup/History.aspx?LegSess=87R&Bill=HB">>
                                  \o SubSeq(q, 3, Len(q))]
        ELSE result = [exc |-> "", ok |-> FALSE, val |-> None]

\* a bill number written with a leading zero was redirected
C5_Witness ==
    /\ op = "house_bill"
    /\ Len(q) >= 4
    /\ q[3] = "0"
    /\ result.ok = TRUE

StaticMessages == {MSG_INVALID_CODE, MSG_CV_FORMAT, MSG_SECTION_FORMAT, MSG_TOC_INVALID}

\* C6: a message returned by statute, statute_toc or house_bill is one of the
\* fixed messages of its redirector, and no character of the query is in it.
C6_StaticMessages ==
    (op \in {"statute", "statute_toc", "house_bill"} /\ result.ok = FALSE /\ result.val # None) =>
        /\ result.val \in StaticMessages
        /\ op = "statute" => result.val \in {MSG_INVALID_CODE, MSG_CV_FORMAT, MSG_SECTION_FORMAT}
        /\ op = "statute_toc" => result.val = MSG_TOC_INVALID
        /\ op # "house_bill"
        /\ \A i \in 1..Len(q) : ~Contains(result.val, q[i]) /\ ~Contains(result.val, UpperChar(q[i]))

\* statute rejected a query for its code, with the fixed message
C6_Witness ==
    /\ op = "statute"
    /\ result.ok = FALSE
    /\ result.val = MSG_INVALID_CODE
    /\ CodeOf(q) \notin VALID_CODES

\* the shape check of the branch statute takes for the code
PassesShapeCheck(s) ==
    IF CodeOf(s) = <<"C","V">>
    THEN Contains(SectionOf(s), ".") => MatchCivilChapter(SectionOf(s))
    ELSE MatchSection(SectionOf(s))

\* C7: for a query that matches the pattern of statute, a code outside VALID_CODES
\* is rejected with the invalid code message; a URL statute returns carries a code
\* of VALID_CODES; and a query that passes the code check and the shape check of
\* its branch is redirected.
C7_CodeCheckFirst ==
    (op = "statute" /\ MatchPAT(canonicalize(q))) =>
        /\ CodeOf(q) \notin VALID_CODES => result = Tuple(FALSE, MSG_INVALID_CODE)
        /\ result.ok = TRUE =>
              /\ CodeOf(q) \in VALID_CODES
              /\ \/ /\ result.val[1] = "https://statutes.capitol.texas.gov/docs/"
                    /\ SubSeq(result.val, 2, 3) = CodeOf(q)
                    /\ SubSeq(result.val, 5, 6) = CodeOf(q)
                 \/ /\ result.val[1] = "https://statutes.capitol.texas.gov/GetStatute.aspx?DocumentType=Word&Value="
                    /\ SubSeq(result.val, 2, 3) = CodeOf(q)
        /\ (CodeOf(q) \in VALID_CODES /\ PassesShapeCheck(q)) => result.ok = TRUE

\* a section that would pass the shape check was rejected for its code
C7_Witness ==
    /\ op = "statute"
    /\ MatchPAT(canonicalize(q))
    /\ CodeOf(q) \notin VALID_CODES
    /\ MatchSection(SectionOf(q))
    /\ result = Tuple(FALSE, MSG_INVALID_CODE)

\* C9: statute returns, for every query, one of (True, url), (False, None) and
\* (False, msg), and no exception leaves it.
C9_StatuteTotal ==
    op = "statute" =>
        /\ result.exc = ""
        /\ \/ result.ok = TRUE /\ result.val # None
           \/ result.ok = FALSE /\ result.val = None
           \/ result.ok = FALSE /\ result.val \in StaticMessages

\* a section that ends with its only dot went through statute
C9_Witness ==
    /\ op = "statute"
    /\ MatchPAT(canonicalize(q))
    /\ CodeOf(q) \in VALID_CODES \ {<<"C","V">>}
    /\ MatchSection(SectionOf(q))
    /\ SectionOf(q)[Len(SectionOf(q))] = "."
    /\ result.ok = TRUE

(***************************************************************************)
(* Properties of the calendar (CalSpec).                                   *)
(***************************************************************************)
NearLeges == {year_lege(date[1]) - 1, year_lege(date[1]), year_lege(date[1]) + 1}

\* C8: without prefiling, for a legislature n >= 12, the day before
\* convening_date(n) is in legislature n - 1, and every day from convening_date(n)
\* up to the day before convening_date(n + 1) is in legislature n.
C8_ConveningBoundary ==
    (op = "current_lege" /\ ~prefiling) =>
        \A n \in NearLeges :
            n >= 12 =>
                /\ NextDay(date) = convening_date(n) => lege = n - 1
                /\ (~Before(date, convening_date(n)) /\ Before(date, convening_date(n + 1)))
                      => lege = n

\* the day before a convening date was resolved, in the odd year
C8_Witness ==
    /\ op = "current_lege"
    /\ ~prefiling
    /\ date[1] % 2 = 1
    /\ NextDay(date) = convening_date(lege + 1)

\* C10: with the prefiling flag fixed, current_lege never decreases from a day to
\* a later day, and from one day to the next it grows by at most 1.
C10_Monotone ==
    (op = "current_lege" /\ prevLege # NoLege) =>
        /\ prevLege <= lege
        /\ lege <= prevLege + 1
        /\ startLege <= lege

\* the first of January of an odd year was resolved after the 31st of December,
\* with prefiling, in a later legislature than the first day's
C10_Witness ==
    /\ op = "current_lege"
    /\ prefiling
    /\ prevLege # NoLege
    /\ date[1] % 2 = 1 /\ date[2] = 1 /\ date[3] = 1
    /\ startLege < lege

====
